---- MODULE Spec2Model ----
(***************************************************************************)
(* groupsim: data/chatdb.py (chat extractor) and data/dataset.py           *)
(* (conversation segmenter, dataset assembly, example builder).            *)
(*                                                                         *)
(* A Python str is a sequence of one-character strings; None / SQL NULL is *)
(* the one-element sequence None, which no str equals.  A datetime is the  *)
(* number of minutes since datetime.min (0001-01-01T00:00).                *)
(***************************************************************************)
EXTENDS Integers, Sequences, FiniteSets, TLC

VARIABLES
    pc,                     \* position in the function under analysis
    i,                      \* position of the running for loop
    \* ---- chatdb.extract_group_chats
    db_exists,              \* os.path.exists(CHATDB_PATH)
    handle,                 \* table handle: rows [rowid, id, name]
    message,                \* table message joined to its chat
    result_set,             \* cursor.fetchall()
    chats,                  \* chats: chat_name -> list of Message
    \* ---- dataset.construct_conversations
    chat,                   \* parameter chat
    boundary_duration,      \* parameter boundary_duration (hours)
    conversations,          \* local conversations
    conversation,           \* local conversation
    start_timestamp,        \* local start_timestamp
    segments,               \* the value returned
    \* ---- dataset.__main__
    main_conversations,     \* __main__'s conversations
    filtered_conversations, \* __main__'s filtered_conversations
    partial_conversations,  \* __main__'s partial_conversations
    \* ---- dataset.construct_example
    partial_conversation,   \* parameter partial_conversation
    instruction,            \* parameter instruction
    example                 \* the dict returned

vars == <<pc, i, db_exists, handle, message, result_set, chats,
          chat, boundary_duration, conversations, conversation,
          start_timestamp, segments,
          main_conversations, filtered_conversations, partial_conversations,
          partial_conversation, instruction, example>>

extract_vars == <<db_exists, handle, message, result_set, chats>>
segment_vars == <<chat, boundary_duration, conversations, conversation,
                  start_timestamp, segments>>
main_vars == <<main_conversations, filtered_conversations, partial_conversations>>
example_vars == <<partial_conversation, instruction, example>>

\* ------------------------------------------------------------------ bounds
MaxChat == 4        \* messages in a chat handed to construct_conversations
MaxMsgs == 3        \* messages over all segments handed to dataset assembly
MaxPartial == 3     \* messages in a partial conversation
MaxRows == 2        \* rows of table message

\* ----------------------------------------------------------------- values
None == <<"<None>">>

\* Not yet assigned (a local before its first assignment, a result before return).
Unset == <<"<unset>">>

Message(speaker, text, timestamp) ==
    [speaker |-> speaker, text |-> text, timestamp |-> timestamp]

\* str * n for a one-character str
Repeat(c, n) == [k \in 1..n |-> c]

\* list[a:b] with 0 <= a, b <= len (Python slice, 0-based, b excluded)
Slice(s, a, b) == SubSeq(s, a + 1, b)

\* str.startswith(prefix)
StartsWith(s, prefix) ==
    /\ Len(s) >= Len(prefix)
    /\ SubSeq(s, 1, Len(prefix)) = prefix

\* ------------------------------------------------- construct_conversations
MinutesPerHour == 60

\* datetime.min
DatetimeMin == 0

\* timedelta(hours=h), in minutes
timedelta(h) == h * MinutesPerHour

\* 2023-01-01T00:00 (proleptic ordinal 738521), minutes since datetime.min
T0 == 738520 * 24 * MinutesPerHour

\* offsets (minutes) of the timestamps a chat's messages are drawn from
Offsets == {0, 60, 120, 121, 180, 300}

Boundaries == {0, 1, 2, 3}

Digit == <<"1", "2", "3", "4", "5", "6", "7", "8", "9">>

\* the k-th message of a chat: texts differ, so that messages are distinguishable
ChatMessage(k, t) == Message(<<"B", "o", "b">>, <<"m", Digit[k]>>, T0 + t)

IsSorted(ts) == \A k \in 1..(Len(ts) - 1) : ts[k] <= ts[k + 1]

\* chats as extract_group_chats returns them: sorted by timestamp
ChatInputs ==
    UNION { { [k \in 1..n |-> ChatMessage(k, ts[k])] :
                ts \in { s \in [1..n -> Offsets] : IsSorted(s) } } :
            n \in 0..MaxChat }

\* line 25: msg.timestamp - start_timestamp > timedelta(hours=boundary_duration)
StartsNewConversation(msg, start, boundary) ==
    msg.timestamp - start > timedelta(boundary)

\* a sliding window: the start moves to every message placed
NextStartTimestamp_Sliding(msg, start, boundary) == msg.timestamp

\* line 29: the start of the window after msg has been placed
NextStartTimestamp(msg, start, boundary) ==
    IF StartsNewConversation(msg, start, boundary) THEN msg.timestamp ELSE start

\* lines 26-27: conversations after msg opened a new conversation
CloseConversation(convs, conv) ==
    IF conv # <<>> THEN Append(convs, conv) ELSE convs

\* line 33: the value returned
ReturnValue(convs, conv) == convs

\* the variables of the functions a specification does not run
ExtractIdle ==
    /\ db_exists = FALSE /\ handle = <<>> /\ message = <<>>
    /\ result_set = <<>> /\ chats = <<>>

SegmentIdle ==
    /\ chat = <<>> /\ boundary_duration = 0 /\ conversations = <<>>
    /\ conversation = <<>> /\ start_timestamp = DatetimeMin /\ segments = Unset

MainIdle ==
    /\ main_conversations = <<>> /\ filtered_conversations = <<>>
    /\ partial_conversations = Unset

ExampleIdle ==
    /\ partial_conversation = <<>> /\ instruction = <<>> /\ example = Unset

\* lines 14-23
InitSegment ==
    /\ pc = "seg_loop"
    /\ i = 0
    /\ chat \in ChatInputs
    /\ boundary_duration \in Boundaries
    /\ conversations = <<>>
    /\ conversation = <<>>
    /\ start_timestamp = DatetimeMin
    /\ segments = Unset
    /\ ExtractIdle /\ MainIdle /\ ExampleIdle

\* lines 24-31: one iteration of `for msg in chat`
SegmentMessage ==
    /\ pc = "seg_loop"
    /\ i < Len(chat)
    /\ LET msg == chat[i + 1]
           new == StartsNewConversation(msg, start_timestamp, boundary_duration)
       IN  /\ conversations' = IF new
                               THEN CloseConversation(conversations, conversation)
                               ELSE conversations
           /\ conversation' = IF new THEN <<msg>> ELSE Append(conversation, msg)
           /\ start_timestamp' =
                  NextStartTimestamp(msg, start_timestamp, boundary_duration)
    /\ i' = i + 1
    /\ UNCHANGED <<pc, chat, boundary_duration, segments>>
    /\ UNCHANGED <<extract_vars, main_vars, example_vars>>

\* line 33
SegmentReturn ==
    /\ pc = "seg_loop"
    /\ i = Len(chat)
    /\ segments' = ReturnValue(conversations, conversation)
    /\ pc' = "seg_done"
    /\ UNCHANGED <<i, chat, boundary_duration, conversations, conversation,
                   start_timestamp>>
    /\ UNCHANGED <<extract_vars, main_vars, example_vars>>

NextSegment == SegmentMessage \/ SegmentReturn

SpecSegment == InitSegment /\ [][NextSegment]_vars

\* ---- claims about construct_conversations

RECURSIVE Flatten(_)
\* the concatenation of a list of lists
Flatten(ss) == IF ss = <<>> THEN <<>> ELSE Head(ss) \o Flatten(Tail(ss))

\* C1: concatenating the returned segments, in order, reproduces the input
\* sequence exactly (nothing lost, nothing duplicated, order preserved).
C1_ConcatenationReproducesInput ==
    pc = "seg_done" => Flatten(segments) = chat

\* the chat of C2: three messages at t0, t0 + 1h, t0 + 3h, boundary 2 hours
C2_Case ==
    /\ boundary_duration = 2
    /\ Len(chat) = 3
    /\ chat[2].timestamp = chat[1].timestamp + 60
    /\ chat[3].timestamp = chat[1].timestamp + 180

\* C2: for messages at t0, t0+1h, t0+3h and a boundary of 2 hours the result is
\* exactly two segments, [t0, t0+1h] and [t0+3h].
C2_TwoSegments ==
    (pc = "seg_done" /\ C2_Case) =>
        segments = << <<chat[1], chat[2]>>, <<chat[3]>> >>

\* C10: every returned segment is non-empty and start-anchored: each message is
\* at most boundary_duration later than the segment's first message, consecutive
\* messages are at most boundary_duration apart, and the first message of each
\* later segment is more than boundary_duration after the first message of the
\* segment before it.
C10_StartAnchored ==
    pc = "seg_done" =>
        \A s \in 1..Len(segments) :
            LET seg == segments[s]
            IN  /\ Len(seg) >= 1
                /\ \A k \in 1..Len(seg) :
                        /\ seg[k].timestamp >= seg[1].timestamp
                        /\ seg[k].timestamp - seg[1].timestamp
                               <= boundary_duration * 60
                /\ \A k \in 1..(Len(seg) - 1) :
                        seg[k + 1].timestamp - seg[k].timestamp
                            <= boundary_duration * 60
                /\ s > 1 =>
                        seg[1].timestamp - segments[s - 1][1].timestamp
                            > boundary_duration * 60

\* two segments are returned, and one of them holds a message exactly
\* boundary_duration after its first message
C10_Witness ==
    /\ pc = "seg_done"
    /\ boundary_duration > 0
    /\ Len(segments) >= 2
    /\ \E s \in 1..Len(segments) : \E k \in 1..Len(segments[s]) :
           segments[s][k].timestamp - segments[s][1].timestamp
               = boundary_duration * 60

\* ------------------------------------------------ __main__ (lines 85-111)
Str_http == <<"h", "t", "t", "p">>

\* "hi"
Str_hi == <<"h", "i">>

\* "http://a.io" (11 characters)
Str_url == Str_http \o <<":", "/", "/", "a", ".", "i", "o">>

\* "0123456789" (10 characters)
Str_ten == <<"0", "1", "2", "3", "4", "5", "6", "7", "8", "9">>

\* "hello world" (11 characters)
Str_eleven == <<"h", "e", "l", "l", "o", " ", "w", "o", "r", "l", "d">>

Str_Bob == <<"B", "o", "b">>

MainTexts == {Str_hi, Str_url, Str_ten, Str_eleven}

MainSpeakers == {None, Str_Bob}

MainMessages == { Message(sp, tx, T0) : sp \in MainSpeakers, tx \in MainTexts }

\* msgs split into segments after the positions in cuts
SplitAt(msgs, cuts) ==
    LET starts == {1} \cup { c + 1 : c \in cuts }
        ends == cuts \cup {Len(msgs)}
        nth(S, j) == CHOOSE x \in S : Cardinality({ y \in S : y <= x }) = j
    IN  [j \in 1..Cardinality(starts) |->
            SubSeq(msgs, nth(starts, j), nth(ends, j))]

\* the segments of all chats (line 77): any list of non-empty segments
MainInputs ==
    {<<>>} \cup
    UNION { { SplitAt(msgs, cuts) :
                msgs \in [1..n -> MainMessages], cuts \in SUBSET (1..(n - 1)) } :
            n \in 1..MaxMsgs }

\* line 87, second operand: len(c[0].text) <= 10
IsShort(text) == Len(text) <= 10

\* line 87: the condition under which a conversation is skipped
IsLowInformation(c) ==
    Len(c) = 1 /\ (StartsWith(c[1].text, Str_http) \/ IsShort(c[1].text))

\* a filter that keeps every position
IsResolved_Always(msg) == TRUE

\* line 110: c[i].speaker is not None
IsResolved(msg) == msg.speaker # None

RECURSIVE Prefixes(_, _)
\* lines 107, 109-110: [c[: i + 1] for i in range(k, len(c)) if c[i].speaker is not None]
Prefixes(c, k) ==
    IF k >= Len(c) THEN <<>>
    ELSE (IF IsResolved(c[k + 1]) THEN <<Slice(c, 0, k + 1)>> ELSE <<>>)
             \o Prefixes(c, k + 1)

RECURSIVE PartialConversations(_)
\* lines 106-111
PartialConversations(convs) ==
    IF convs = <<>> THEN <<>>
    ELSE Prefixes(Head(convs), 0) \o PartialConversations(Tail(convs))

\* lines 75-85
InitMain ==
    /\ pc = "main_filter"
    /\ i = 0
    /\ main_conversations \in MainInputs
    /\ filtered_conversations = <<>>
    /\ partial_conversations = Unset
    /\ ExtractIdle /\ SegmentIdle /\ ExampleIdle

\* lines 86-90: one iteration of `for c in conversations`
FilterConversation ==
    /\ pc = "main_filter"
    /\ i < Len(main_conversations)
    /\ LET c == main_conversations[i + 1]
       IN  filtered_conversations' =
               IF IsLowInformation(c) THEN filtered_conversations
               ELSE Append(filtered_conversations, c)
    /\ i' = i + 1
    /\ UNCHANGED <<pc, main_conversations, partial_conversations>>
    /\ UNCHANGED <<extract_vars, segment_vars, example_vars>>

\* line 97: conversations = filtered_conversations
AssignFiltered ==
    /\ pc = "main_filter"
    /\ i = Len(main_conversations)
    /\ main_conversations' = filtered_conversations
    /\ pc' = "main_expand"
    /\ UNCHANGED <<i, filtered_conversations, partial_conversations>>
    /\ UNCHANGED <<extract_vars, segment_vars, example_vars>>

\* lines 106-111
ExpandPartials ==
    /\ pc = "main_expand"
    /\ partial_conversations' = PartialConversations(main_conversations)
    /\ pc' = "main_done"
    /\ UNCHANGED <<i, main_conversations, filtered_conversations>>
    /\ UNCHANGED <<extract_vars, segment_vars, example_vars>>

NextMain == FilterConversation \/ AssignFiltered \/ ExpandPartials

SpecMain == InitMain /\ [][NextMain]_vars

\* ---- claims about __main__

\* the segments C3 says are dropped
C3_Dropped(c) ==
    /\ Len(c) = 1
    /\ \/ (Len(c[1].text) >= 4 /\ SubSeq(c[1].text, 1, 4) = <<"h", "t", "t", "p">>)
       \/ Len(c[1].text) < 10

\* C3: a segment is dropped if and only if it has exactly one message whose text
\* begins with "http" or is shorter than 10 characters; every other segment is
\* kept (in order) for partial-conversation expansion.
C3_DroppedIffLowInformation ==
    pc = "main_filter" =>
        filtered_conversations =
            SelectSeq(SubSeq(main_conversations, 1, i), LAMBDA c : ~C3_Dropped(c))

\* the (segment, position) pairs whose message has a resolved speaker
C9_Endings ==
    { p \in (1..Len(main_conversations)) \X (1..MaxMsgs) :
        /\ p[2] <= Len(main_conversations[p[1]])
        /\ main_conversations[p[1]][p[2]].speaker # <<"<None>">> }

\* the place of ending p in segment order, then position order
C9_Rank(p) ==
    Cardinality({ q \in C9_Endings :
                    q[1] < p[1] \/ (q[1] = p[1] /\ q[2] <= p[2]) })

\* C9: expansion yields exactly one prefix per position whose message has a
\* resolved speaker (the prefix ending at that message) and never a prefix
\* ending on a message whose speaker is None; a segment with no resolved
\* speaker yields no prefix.
C9_OnePrefixPerResolvedEnding ==
    pc = "main_done" =>
        /\ Len(partial_conversations) = Cardinality(C9_Endings)
        /\ \A p \in C9_Endings :
               partial_conversations[C9_Rank(p)]
                   = SubSeq(main_conversations[p[1]], 1, p[2])
        /\ \A j \in 1..Len(partial_conversations) :
               LET pcv == partial_conversations[j]
               IN  Len(pcv) >= 1 /\ pcv[Len(pcv)].speaker # <<"<None>">>

\* expansion ran on two surviving segments, one without any resolved speaker,
\* the other with a resolved and an unresolved position
C9_Witness ==
    /\ pc = "main_done"
    /\ Len(main_conversations) = 2
    /\ \A k \in 1..Len(main_conversations[1]) :
           main_conversations[1][k].speaker = <<"<None>">>
    /\ Len(main_conversations[2]) = 2
    /\ main_conversations[2][1].speaker = <<"<None>">>
    /\ main_conversations[2][2].speaker # <<"<None>">>
    /\ Len(partial_conversations) = 1

\* -------------------------------------------------------- construct_example
Str_NL == <<"\n">>

\* ": "
Str_ColonSpace == <<":", " ">>

\* "Unknown speaker"
Str_UnknownSpeaker ==
    <<"U", "n", "k", "n", "o", "w", "n", " ", "s", "p", "e", "a", "k", "e", "r">>

\* "Conversation:\n"
Str_Header ==
    <<"C", "o", "n", "v", "e", "r", "s", "a", "t", "i", "o", "n", ":">> \o Str_NL

Str_Al == <<"A", "l">>

\* str(None), as an f-string renders a None speaker
Str_None == <<"N", "o", "n", "e">>

\* line 47: 256 * 4 characters, approximately 256 tokens
Budget == 256 * 4

\* f"{value}" of an Optional[str]
Format(value) == IF value = None THEN Str_None ELSE value

\* a transcript line without the "Unknown speaker" placeholder
Render_NoPlaceholder(msg) == Format(msg.speaker) \o Str_ColonSpace \o msg.text

\* lines 40-42 and 50-52: the transcript line of a message
Render(msg) ==
    IF msg.speaker # None
    THEN Format(msg.speaker) \o Str_ColonSpace \o msg.text
    ELSE Str_UnknownSpeaker \o Str_ColonSpace \o msg.text

RECURSIVE Join(_, _)
\* sep.join(parts)
Join(sep, parts) ==
    IF parts = <<>> THEN <<>>
    ELSE IF Len(parts) = 1 THEN parts[1]
    ELSE parts[1] \o sep \o Join(sep, Tail(parts))

\* [Render(msg) for msg in msgs]
RenderAll(msgs) == [k \in 1..Len(msgs) |-> Render(msgs[k])]

\* list[a:-1] for 0 <= a
SliceToLast(s, a) == IF Len(s) = 0 THEN <<>> ELSE Slice(s, a, Len(s) - 1)

\* a halving that keeps one message less
HalfStart_OffByOne(n) == n \div 2 + 1

\* line 53: len(partial_conversation) // 2
HalfStart(n) == n \div 2

\* lines 38-55: context before the header is added
Context(pcv) ==
    LET full == Join(Str_NL, RenderAll(SliceToLast(pcv, 0)))
    IN  IF Len(full) > Budget
        THEN Join(Str_NL, RenderAll(SliceToLast(pcv, HalfStart(Len(pcv)))))
        ELSE full

\* lines 56-57, 60: "Conversation:\n" + context + "\n" + f"{last_msg.speaker}: "
ExampleInput(pcv) ==
    Str_Header \o Context(pcv) \o Str_NL
        \o Format(pcv[Len(pcv)].speaker) \o Str_ColonSpace

\* an output that carries the speaker label
ExampleOutput_Labelled(pcv) == Render(pcv[Len(pcv)])

\* lines 57, 61: last_msg.text
ExampleOutput(pcv) == pcv[Len(pcv)].text

\* lines 58-62
Example(pcv, instr) ==
    [instruction |-> instr, input |-> ExampleInput(pcv), output |-> ExampleOutput(pcv)]

\* a text of 1019 characters: "Bob: " and it make a line of exactly Budget
\* characters, "Unknown speaker: " and it a longer one
Str_long == Repeat("x", 1019)

\* a text of 1100 characters
Str_huge == Repeat("y", 1100)

ExampleTexts == {Str_hi, Str_long, Str_huge}

\* the messages before the target: any speaker, resolved or not
ContextMessages == { Message(sp, tx, T0) : sp \in {None, Str_Bob}, tx \in ExampleTexts }

\* the target: its speaker is resolved (line 110)
TargetMessages == { Message(sp, tx, T0) : sp \in {Str_Bob, Str_Al}, tx \in ExampleTexts }

\* the partial conversations __main__ hands over: non-empty, last speaker resolved
PartialInputs ==
    UNION { { Append(ctx, last) :
                ctx \in [1..(n - 1) -> ContextMessages], last \in TargetMessages } :
            n \in 1..MaxPartial }

\* the instruction strings of line 115, abbreviated
Instructions == { <<"I", ":", "B", "o", "b">>, <<"I", ":", "A", "l">> }

\* line 36
InitExample ==
    /\ pc = "ex_call"
    /\ i = 0
    /\ partial_conversation \in PartialInputs
    /\ instruction \in Instructions
    /\ example = Unset
    /\ ExtractIdle /\ SegmentIdle /\ MainIdle

\* lines 38-62
ConstructExample ==
    /\ pc = "ex_call"
    /\ example' = Example(partial_conversation, instruction)
    /\ pc' = "ex_done"
    /\ UNCHANGED <<i, partial_conversation, instruction>>
    /\ UNCHANGED <<extract_vars, segment_vars, main_vars>>

NextExample == ConstructExample

SpecExample == InitExample /\ [][NextExample]_vars

\* ---- claims about construct_example

\* the transcript line the claims describe for message m
Claim_Line(m) ==
    (IF m.speaker = <<"<None>">>
     THEN <<"U", "n", "k", "n", "o", "w", "n", " ", "s", "p", "e", "a", "k", "e", "r">>
     ELSE m.speaker) \o <<":", " ">> \o m.text

RECURSIVE Claim_Lines(_, _, _)
\* the lines of messages a..b (1-based), each ended by a line break
Claim_Lines(msgs, a, b) ==
    IF a > b THEN <<>>
    ELSE Claim_Line(msgs[a]) \o <<"\n">> \o Claim_Lines(msgs, a + 1, b)

\* header, the lines of messages a..b (an empty line when there is none), and
\* the prompt for the target speaker
Claim_Input(msgs, a, b) ==
    <<"C", "o", "n", "v", "e", "r", "s", "a", "t", "i", "o", "n", ":", "\n">>
        \o (IF a > b THEN <<"\n">> ELSE Claim_Lines(msgs, a, b))
        \o msgs[Len(msgs)].speaker \o <<":", " ">>

RECURSIVE Claim_LengthOfLines(_, _, _)
\* the number of characters of the lines of messages a..b joined by line breaks
Claim_LengthOfLines(msgs, a, b) ==
    IF a > b THEN 0
    ELSE Len(Claim_Line(msgs[a])) + (IF a < b THEN 1 ELSE 0)
             + Claim_LengthOfLines(msgs, a + 1, b)

\* the rendered context of all non-final messages is longer than the budget
Claim_OverBudget ==
    Claim_LengthOfLines(partial_conversation, 1, Len(partial_conversation) - 1) > 1024

\* C6: when the rendered context of all non-final messages is longer than 1024
\* characters, the input is built from exactly the messages at (0-based) indices
\* len//2 .. len-2, each rendered once and in order, with no further trimming.
C6_HalvedOnce ==
    (pc = "ex_done" /\ Claim_OverBudget) =>
        example.input =
            Claim_Input(partial_conversation,
                        Len(partial_conversation) \div 2 + 1,
                        Len(partial_conversation) - 1)

\* a halved context that still exceeds the budget and is kept whole
C6_Witness ==
    /\ pc = "ex_done"
    /\ Claim_OverBudget
    /\ Len(partial_conversation) >= 3
    /\ Claim_LengthOfLines(partial_conversation,
                           Len(partial_conversation) \div 2 + 1,
                           Len(partial_conversation) - 1) > 1024
    /\ Len(example.input) > 1024

\* C7: when the rendered context does not exceed the budget, the input is the
\* header line "Conversation:", every non-final message rendered once and in
\* order as "speaker: text" ("Unknown speaker" for None), and the target
\* speaker's name followed by ": " and nothing more.
C7_WholeContext ==
    (pc = "ex_done" /\ ~Claim_OverBudget) =>
        example.input =
            Claim_Input(partial_conversation, 1, Len(partial_conversation) - 1)

\* a context of two messages within the budget, one of them of unknown speaker
C7_Witness ==
    /\ pc = "ex_done"
    /\ ~Claim_OverBudget
    /\ Len(partial_conversation) = 3
    /\ partial_conversation[1].speaker = <<"<None>">>
    /\ partial_conversation[2].speaker # <<"<None>">>

\* C8: output is the final message's text verbatim and instruction is the
\* caller's instruction unchanged, whether or not the context is halved.
C8_OutputAndInstruction ==
    pc = "ex_done" =>
        /\ example.output = partial_conversation[Len(partial_conversation)].text
        /\ example.instruction = instruction

\* a halved context and a final text longer than the budget, returned whole
C8_Witness ==
    /\ pc = "ex_done"
    /\ Claim_OverBudget
    /\ Len(example.output) > 1024

\* ------------------------------------------------ chatdb.extract_group_chats
NULL == None

Lowercase ==
    <<"a", "b", "c", "d", "e", "f", "g", "h", "i", "j", "k", "l", "m",
      "n", "o", "p", "q", "r", "s", "t", "u", "v", "w", "x", "y", "z">>

Uppercase ==
    <<"A", "B", "C", "D", "E", "F", "G", "H", "I", "J", "K", "L", "M",
      "N", "O", "P", "Q", "R", "S", "T", "U", "V", "W", "X", "Y", "Z">>

\* str.upper() / str.lower() of one character
Upper(c) ==
    IF \E k \in 1..26 : Lowercase[k] = c
    THEN Uppercase[CHOOSE k \in 1..26 : Lowercase[k] = c] ELSE c

Lower(c) ==
    IF \E k \in 1..26 : Uppercase[k] = c
    THEN Lowercase[CHOOSE k \in 1..26 : Uppercase[k] = c] ELSE c

LowerStr(s) == [k \in 1..Len(s) |-> Lower(s[k])]

\* the character U+FFFC (ord 65532), OBJECT REPLACEMENT CHARACTER
ObjectReplacementChar == "U+FFFC"

Whitespace == {" ", "\n", "\t"}

RECURSIVE LStrip(_)
LStrip(s) == IF s # <<>> /\ Head(s) \in Whitespace THEN LStrip(Tail(s)) ELSE s

RECURSIVE RStrip(_)
RStrip(s) ==
    IF s # <<>> /\ s[Len(s)] \in Whitespace THEN RStrip(SubSeq(s, 1, Len(s) - 1)) ELSE s

\* line 113: text.strip()
Strip(s) == RStrip(LStrip(s))

\* line 115: speaker[0].upper() + speaker[1:].lower()
Capitalize(speaker) == <<Upper(speaker[1])>> \o LowerStr(Tail(speaker))

\* line 116: datetime.fromisoformat("YYYY-MM-DD HH:MM:SS"), the string given by
\* its date (days since 0001-01-01) and its time of day (minutes)
FromIsoFormat(raw) == raw.day * 24 * MinutesPerHour + raw.minute

\* line 119: any(ord(char) == 65532 for char in text)
HasObjectReplacement(text) == \E k \in 1..Len(text) : text[k] = ObjectReplacementChar

\* SQLite: text LIKE 'prefix%' (LIKE ignores ASCII case)
LikePrefix(text, prefix) == StartsWith(LowerStr(text), LowerStr(prefix))

\* SQLite: text LIKE '%infix%'
LikeContains(text, infix) ==
    \E k \in 0..(Len(text) - Len(infix)) :
        LowerStr(Slice(text, k, k + Len(infix))) = LowerStr(infix)

\* lines 78-84: the tapback prefixes
ReactionPrefixes ==
    { <<"L", "o", "v", "e", "d">>,
      <<"L", "i", "k", "e", "d">>,
      <<"D", "i", "s", "l", "i", "k", "e", "d">>,
      <<"L", "a", "u", "g", "h", "e", "d", " ", "a", "t">>,
      <<"E", "m", "p", "h", "a", "s", "i", "z", "e", "d">>,
      <<"Q", "u", "e", "s", "t", "i", "o", "n", "e", "d">>,
      <<"R", "e", "m", "o", "v", "e", "d">> }

\* line 66: the label of the owner's own messages
Str_jeremy == <<"j", "e", "r", "e", "m", "y">>

\* chat.display_name of the group chat and the pattern argument (sys.argv[-1])
Str_groupchat == <<"G", "C">>

ChatNameArg == <<"g", "c">>

\* table chat: the group chat and a one-to-one chat (no display name)
ChatTable == { [rowid |-> 1, display_name |-> Str_groupchat],
               [rowid |-> 2, display_name |-> <<>>] }

\* table chat_handle_join: both handles are in the group chat, handle 1 also
\* in the one-to-one chat
ChatHandleJoin == { [chat_id |-> 1, handle_id |-> 1],
                    [chat_id |-> 1, handle_id |-> 2],
                    [chat_id |-> 2, handle_id |-> 1] }

\* table handle: the name column is the one added by hand (lines 21-23)
HandleTables ==
    { { [rowid |-> 1, id |-> <<"+", "1">>, name |-> n1],
        [rowid |-> 2, id |-> <<"+", "2">>, name |-> n2] } :
      n1 \in {NULL, <<"b", "o", "b">>}, n2 \in {NULL, <<"a", "l">>} }

RawTexts ==
    { NULL,
      <<" ", " ">>,
      <<" ", "h", "i", "\n">>,
      <<"L", "o", "v", "e", "d", " ", "i", "t">>,
      <<"p", "i", "c", ObjectReplacementChar>> }

\* 2023-01-01 00:00 and 01:00 as datetime() prints them
RawTimestamps == { [day |-> 738520, minute |-> 0], [day |-> 738520, minute |-> 60] }

\* table message with chat_message_join: row k has rowid k and is in one chat
MessageTables ==
    UNION { [1..n -> [chat_id : {1, 2}, handle_id : {0, 1, 2}, is_from_me : {0, 1},
                      text : RawTexts, timestamp : RawTimestamps]] :
            n \in 0..MaxRows }

\* lines 17-28: group_chat_names
GroupChatNames(handles) ==
    { h.name : h \in { h \in handles :
        \E j \in ChatHandleJoin, c \in ChatTable :
            /\ j.chat_id = c.rowid
            /\ h.rowid = j.handle_id
            /\ LikeContains(c.display_name, ChatNameArg) } }

\* lines 30-35: handle RIGHT JOIN group_chat_names ON equal names, its rows
\* with a handle.  A name that no handle equals (NULL equals nothing) adds a
\* row of NULLs, whose NULL rowid satisfies no join condition below.
GroupChatHandles(handles) ==
    { h \in handles : h.name # NULL /\ h.name \in GroupChatNames(handles) }

\* lines 37-55: is message row m (in its chat) collected
InMessages(handles, m) ==
    \E gh \in GroupChatHandles(handles), j \in ChatHandleJoin :
        /\ j.handle_id = gh.rowid
        /\ j.chat_id = m.chat_id

\* lines 43, 52: chat.display_name "chat_name"
ChatNameOf(m) == (CHOOSE c \in ChatTable : c.rowid = m.chat_id).display_name

\* lines 74-84: the WHERE clause
Where(m) ==
    /\ ChatNameOf(m) # <<>>
    /\ m.text # NULL
    /\ \A p \in ReactionPrefixes : ~LikePrefix(m.text, p)

\* line 73: LEFT JOIN group_chat_handles ON group_chat_handles.rowid =
\* messages.handle_id: the columns id and name of the rows joined to m, NULLs
\* when no row joins
JoinedHandles(handles, m) ==
    LET hit == { gh \in GroupChatHandles(handles) : gh.rowid = m.handle_id }
    IN  IF hit = {} THEN { [id |-> NULL, name |-> NULL] }
        ELSE { [id |-> gh.id, name |-> gh.name] : gh \in hit }

\* lines 62-69: the speaker CASE
SpeakerCase(gh, m) ==
    IF gh.name # NULL THEN gh.name
    ELSE IF m.is_from_me = 1 THEN Str_jeremy
    ELSE gh.id

RECURSIVE FilteredMessages(_, _, _)
\* lines 57-89: the rows of filtered_messages for message rows k.., in rowid order
FilteredMessages(handles, msgs, k) ==
    IF k > Len(msgs) THEN <<>>
    ELSE LET m == msgs[k]
             gh == CHOOSE g \in JoinedHandles(handles, m) : TRUE
             row == <<ChatNameOf(m), SpeakerCase(gh, m), m.text, m.timestamp>>
         IN  (IF InMessages(handles, m) /\ Where(m) THEN <<row>> ELSE <<>>)
                 \o FilteredMessages(handles, msgs, k + 1)

\* the orders in which a SELECT without ORDER BY may return n rows
Orders(n) == { f \in [1..n -> 1..n] : \A a, b \in 1..n : a # b => f[a] # f[b] }

RECURSIVE InsertByTimestamp(_, _)
\* m placed after every message that is not later than it
InsertByTimestamp(sorted, m) ==
    IF sorted = <<>> THEN <<m>>
    ELSE IF Head(sorted).timestamp <= m.timestamp
         THEN <<Head(sorted)>> \o InsertByTimestamp(Tail(sorted), m)
         ELSE <<m>> \o sorted

RECURSIVE SortedByTimestamp(_)
\* line 125: sorted(chat, key=lambda m: m.timestamp), a stable sort
SortedByTimestamp(msgs) ==
    IF msgs = <<>> THEN <<>>
    ELSE InsertByTimestamp(SortedByTimestamp(SubSeq(msgs, 1, Len(msgs) - 1)),
                           msgs[Len(msgs)])

\* lines 112-116: the Message of a row
RowMessage(row) ==
    Message(IF row[2] # None THEN Capitalize(row[2]) ELSE None,
            Strip(row[3]),
            FromIsoFormat(row[4]))

\* line 122: chats[chat_name].append(msg) on a defaultdict(list)
AppendToChat(cs, name, msg) ==
    [n \in DOMAIN cs \cup {name} |->
        IF n = name
        THEN Append(IF n \in DOMAIN cs THEN cs[n] ELSE <<>>, msg)
        ELSE cs[n]]

\* line 100
InitExtract ==
    /\ pc = "x_open"
    /\ i = 0
    /\ db_exists \in BOOLEAN
    /\ handle \in HandleTables
    /\ message \in MessageTables
    /\ result_set = <<>>
    /\ chats = <<>>
    /\ SegmentIdle /\ MainIdle /\ ExampleIdle

\* lines 102-103
RaiseFileNotFound ==
    /\ pc = "x_open"
    /\ ~db_exists
    /\ pc' = "x_raised"
    /\ UNCHANGED <<i, extract_vars, segment_vars, main_vars, example_vars>>

\* lines 105-110
ExecuteQuery ==
    /\ pc = "x_open"
    /\ db_exists
    /\ LET rows == FilteredMessages(handle, message, 1)
       IN  \E order \in Orders(Len(rows)) :
               result_set' = [k \in 1..Len(rows) |-> rows[order[k]]]
    /\ pc' = "x_rows"
    /\ UNCHANGED <<i, db_exists, handle, message, chats>>
    /\ UNCHANGED <<segment_vars, main_vars, example_vars>>

\* lines 111-122: one iteration of `for row in result_set`
ExtractRow ==
    /\ pc = "x_rows"
    /\ i < Len(result_set)
    /\ LET row == result_set[i + 1]
           msg == RowMessage(row)
       IN  chats' = IF HasObjectReplacement(msg.text) THEN chats
                    ELSE AppendToChat(chats, row[1], msg)
    /\ i' = i + 1
    /\ UNCHANGED <<pc, db_exists, handle, message, result_set>>
    /\ UNCHANGED <<segment_vars, main_vars, example_vars>>

\* lines 124-127
SortAndReturn ==
    /\ pc = "x_rows"
    /\ i = Len(result_set)
    /\ chats' = [n \in DOMAIN chats |-> SortedByTimestamp(chats[n])]
    /\ pc' = "x_done"
    /\ UNCHANGED <<i, db_exists, handle, message, result_set>>
    /\ UNCHANGED <<segment_vars, main_vars, example_vars>>

NextExtract == RaiseFileNotFound \/ ExecuteQuery \/ ExtractRow \/ SortAndReturn

SpecExtract == InitExtract /\ [][NextExtract]_vars

\* ---- claims about extract_group_chats

\* C4: no Message of the result has an empty text: the stored text is non-empty
\* after stripping (a row whose text is only whitespace yields no Message).
C4_NoEmptyText ==
    \A n \in DOMAIN chats : \A k \in 1..Len(chats[n]) : chats[n][k].text # <<>>

\* the speaker C5 gives message row m: the self label when is_from_me is set,
\* else the linked handle's name when it has one, else its raw identifier
C5_Speaker(m) ==
    IF m.is_from_me = 1 THEN <<"j", "e", "r", "e", "m", "y">>
    ELSE IF \E h \in handle : h.rowid = m.handle_id
         THEN LET h == CHOOSE h \in handle : h.rowid = m.handle_id
              IN  IF h.name # <<"<None>">> THEN h.name ELSE h.id
         ELSE <<"<None>">>

\* the message rows the query returns, in rowid order
C5_Returned ==
    SelectSeq(message, LAMBDA m : InMessages(handle, m) /\ Where(m))

\* C5: every returned message whose is_from_me flag is set carries the self
\* label, whatever handle its row links to; any other message carries the
\* handle's name when the handle has one and the raw handle identifier otherwise.
C5_SpeakerAttribution ==
    pc = "x_rows" =>
        /\ Len(result_set) = Len(C5_Returned)
        /\ \E order \in Orders(Len(C5_Returned)) :
               \A k \in 1..Len(C5_Returned) :
                   result_set[k][2] = C5_Speaker(C5_Returned[order[k]])

====
